---- MODULE Spec2Model ----
(***************************************************************************)
(* JXG.Intersection (src/src/Intersection.js): classification of the two   *)
(* parents, construction of the owned points, update(), hideElement /      *)
(* showElement, hideChild / showChild and remove(), over a board registry. *)
(* Point, the board registry and the algebra solver are collaborators      *)
(* whose code is not in this file; they are modelled by their contract.    *)
(***************************************************************************)
EXTENDS Integers, FiniteSets, Sequences, TLC

\* Number of distinct coordinates the solver can return for the first solution.
MaxCoord == 2

\* The intersection constructs of the board and one further dependent element.
Ids == {"K1", "K2"}
Deps == {"D1"}
Slots == {"p", "p1", "p2"}

\* The point stored in field s (this.p, this.p1, this.p2) of construct k.
Pt(k, s) == k \o "." \o s
Points == {Pt(k, s) : k \in Ids, s \in Slots}
Elems == Ids \cup Points \cup Deps

\* Coordinates: [0, 0] placeholder, undefined entry of a solver result.
Origin == 0
Undef == 0 - 1

\* Parent parameters: the type of the element and whether a string id was passed.
Types == {"line", "arrow", "circle", "arc", "point", "empty", "undef"}
Args == [t : Types, byId : BOOLEAN]
Obj(t) == [t |-> t, byId |-> FALSE]

\* Solver results: coordinates[0] is the count, [1] and [2] the solutions.
Solutions == {[count |-> 0, c1 |-> Undef, c2 |-> Undef]} \cup {[count |-> 1, c1 |-> c, c2 |-> Undef] : c \in 1..MaxCoord} \cup {[count |-> 2, c1 |-> c, c2 |-> c + MaxCoord] : c \in 1..MaxCoord}

\* kind[k]: the constructor branch construct k took ("none" before construction,
\*   "threw" when the constructor raised, "noop" after the return of line 111);
\* owned[k]: which of this.p, this.p1, this.p2 are defined;
\* intersect1[k], intersect2[k]: types of this.intersect1 and this.intersect2;
\* real[k]: this.real; needsUpdate[k]: this.needsUpdate;
\* visible[e]: visProp['visible']; shown[e]: whether e is rendered;
\* notExistingParents[e]: the keys of e.notExistingParents;
\* coords[q]: q.coords; objects: the keys of board.objects;
\* descendants[k]: the keys of this.descendants;
\* last, hist: the last call and the hideChild / showChild history (observers);
\* run: the update() in progress, when its statements are taken one at a time:
\*   the construct, the statements still to execute, the solver's result, the
\*   saved flags (lines 226-227, 324-325), this.real at entry, and the number
\*   of showChild calls made so far.
VARIABLES kind, owned, intersect1, intersect2, real, needsUpdate, visible, shown, notExistingParents, coords, objects, descendants, last, hist, run

vars == <<kind, owned, intersect1, intersect2, real, needsUpdate, visible, shown, notExistingParents, coords, objects, descendants, last, hist, run>>

\* The fields of the program, without the record of the last call.
prog == <<kind, owned, intersect1, intersect2, real, needsUpdate, visible, shown, notExistingParents, coords, objects, descendants>>

\* type == JXG.OBJECT_TYPE_INTERSECTION
IsIntersection(e) == e \in Ids

\* The point fields the constructor defines in the branch kd (lines 125, 198-201, 282-285).
SlotsOf(kd) == IF kd = "LL" THEN {"p"} ELSE IF kd \in {"CC", "CL"} THEN {"p1", "p2"} ELSE {}

\* The points construct k owns: its defined fields among p, p1, p2.
PointsOf(k) == {Pt(k, s) : s \in owned[k]}

\* Constructs whose methods can be called: the constructor returned an object.
Built(k) == kind[k] \in {"noop", "LL", "CC", "CL"}
Live(k) == kind[k] \in {"LL", "CC", "CL"}

\* Point.hideElement / Point.showElement: intent flag and rendered state.
PointHide == [visible |-> FALSE, shown |-> FALSE]
PointShow == [visible |-> TRUE, shown |-> TRUE]

\* The element fields hideChild and showChild work on.
Board == [vis |-> visible, shn |-> shown, nep |-> notExistingParents]

\* No solver call, or a solver call that found nothing.
NoSol == [count |-> 0, c1 |-> Undef, c2 |-> Undef]

\* History of the protocol: pending[e] holds <<id, v>> when hideChild(id) reached
\* e while its visible flag was v and no showChild(id) ran since; released[e]
\* holds the entries the last call took away, when that call was a showChild.
NoHist == [pending |-> [e \in Elems |-> {}], released |-> [e \in Elems |-> {}]]

\* No update() in progress, none made yet.
NoRun == [k |-> "", todo |-> <<>>, sol |-> NoSol, show1 |-> FALSE, show2 |-> FALSE, wasReal |-> FALSE, shows |-> 0]

NoCall == [op |-> "init", k |-> "", id |-> "", sol |-> NoSol, dirty |-> FALSE, wrote |-> FALSE, hid |-> FALSE, showed |-> FALSE]

Init ==
    /\ kind = [k \in Ids |-> "none"]
    /\ owned = [k \in Ids |-> {}]
    /\ intersect1 = [k \in Ids |-> "undef"]
    /\ intersect2 = [k \in Ids |-> "undef"]
    /\ real = [k \in Ids |-> TRUE]
    /\ needsUpdate = [k \in Ids |-> FALSE]
    /\ visible = [e \in Elems |-> FALSE]
    /\ shown = [e \in Elems |-> FALSE]
    /\ notExistingParents = [e \in Elems |-> {}]
    /\ coords = [p \in Points |-> Origin]
    /\ objects = {}
    /\ descendants = [k \in Ids |-> {}]
    /\ last = NoCall
    /\ hist = NoHist
    /\ run = NoRun

\* ------------------------------------------------------------------------
\* Classification of the parent pair (constructor, lines 92-119, 195-197, 281)

\* Both tests of line 110: '' or undefined.
Absent(t) == t \in {"empty", "undef"}

\* .type of a resolved parent; '' has no type property.
TypeOf(t) == IF Absent(t) THEN "undefined" ELSE t

\* .type of the raw parameter: a string id has no type property.
RawType(a) == IF a.byId \/ Absent(a.t) THEN "undefined" ELSE a.t

\* Line 110: nothing to intersect.
BothAbsent(t1, t2) == Absent(t1) /\ Absent(t2)

\* Lines 117-119, on this.intersect1.type and this.intersect2.type.
IsLineLine(t1, t2) == \/ (TypeOf(t1) = TypeOf(t2) /\ TypeOf(t1) \in {"line", "arrow"})
                      \/ (TypeOf(t1) = "line" /\ TypeOf(t2) = "arrow")
                      \/ (TypeOf(t2) = "line" /\ TypeOf(t1) = "arrow")

\* Lines 195-197, on Intersect1.type and Intersect2.type (the raw parameters).
IsCircleCircle(r1, r2) == \/ (r1 = r2 /\ r1 \in {"circle", "arc"})
                          \/ (r1 = "circle" /\ r2 = "arc")
                          \/ (r2 = "circle" /\ r1 = "arc")

\* Reading .type of undefined throws: line 117 reads both types first.
Throws(t1, t2) == ~BothAbsent(t1, t2) /\ (t1 = "undef" \/ t2 = "undef")

\* The branch of the constructor that runs.
Classify(a1, a2) == IF BothAbsent(a1.t, a2.t) THEN "noop"
                    ELSE IF Throws(a1.t, a2.t) THEN "threw"
                    ELSE IF IsLineLine(a1.t, a2.t) THEN "LL"
                    ELSE IF IsCircleCircle(RawType(a1), RawType(a2)) THEN "CC"
                    ELSE "CL"

\* The swap with its test on the circle types: a line stays first.
SwappedOnCircle(kd, t1) == kd = "CL" /\ TypeOf(t1) \in {"circle", "arc"}

\* Lines 291-295: the swap of the Circle x Line branch.
Swapped(kd, t1) == kd = "CL" /\ TypeOf(t1) \in {"line", "arrow"}

\* The three supported kinds, by the resolved parent types.
LineLikeT(t) == t \in {"line", "arrow"}
CircleLikeT(t) == t \in {"circle", "arc"}
SupportedPair(t1, t2) == \/ (LineLikeT(t1) /\ LineLikeT(t2))
                         \/ (CircleLikeT(t1) /\ CircleLikeT(t2))
                         \/ (CircleLikeT(t1) /\ LineLikeT(t2))
                         \/ (LineLikeT(t1) /\ CircleLikeT(t2))

\* ------------------------------------------------------------------------
\* hideChild / showChild (the same body in the three branches)

\* The test of lines 171, 262, 361 on one descendant.
HideHit(B, e, dsc) == e \in dsc /\ B.vis[e] /\ ~IsIntersection(e)

\* hideChild with line 264 outside the test: every descendant's flag is set.
hideChildSetsVisible(B, k, id, dsc) ==
    [vis |-> [e \in Elems |-> IF e \in dsc /\ ~IsIntersection(e) THEN TRUE ELSE B.vis[e]],
     shn |-> [e \in Elems |-> IF e \in dsc /\ B.vis[e] /\ ~IsIntersection(e) THEN PointHide.shown ELSE B.shn[e]],
     nep |-> [e \in Elems |-> IF e = k \/ e \in dsc THEN B.nep[e] \cup {id} ELSE B.nep[e]]]

\* hideChild without line 264: the flag stays as hideElement left it.
hideChildNoRestore(B, k, id, dsc) ==
    [vis |-> [e \in Elems |-> IF HideHit(B, e, dsc) THEN PointHide.visible ELSE B.vis[e]],
     shn |-> [e \in Elems |-> IF HideHit(B, e, dsc) THEN PointHide.shown ELSE B.shn[e]],
     nep |-> [e \in Elems |-> IF e = k \/ e \in dsc THEN B.nep[e] \cup {id} ELSE B.nep[e]]]

\* hideChild(id) of construct k with descendant set dsc, on element fields B.
hideChild(B, k, id, dsc) ==
    [vis |-> [e \in Elems |-> IF HideHit(B, e, dsc) THEN TRUE ELSE B.vis[e]],
     shn |-> [e \in Elems |-> IF HideHit(B, e, dsc) THEN PointHide.shown ELSE B.shn[e]],
     nep |-> [e \in Elems |-> IF e = k \/ e \in dsc THEN B.nep[e] \cup {id} ELSE B.nep[e]]]

\* notExistingParents kept as one flag: showChild clears every key.
ShowDeleteClears(B, id, objs) == [e \in Elems |-> IF e \in objs THEN {} ELSE B.nep[e]]

\* The delete of line 272 moved inside the test of line 274: intersection
\* constructs keep the key.
ShowDeleteNonIntersection(B, id, objs) == [e \in Elems |-> IF e \in objs /\ ~IsIntersection(e) THEN B.nep[e] \ {id} ELSE B.nep[e]]

\* The delete of line 272 moved inside the test of line 273: only elements
\* whose flag is true lose the key.
ShowDeleteVisible(B, id, objs) == [e \in Elems |-> IF e \in objs /\ B.vis[e] THEN B.nep[e] \ {id} ELSE B.nep[e]]

\* The delete of lines 186, 272, 371 over board.objects.
ShowDelete(B, id, objs) == [e \in Elems |-> IF e \in objs THEN B.nep[e] \ {id} ELSE B.nep[e]]

\* The test without the length == 0 condition: the last showChild wins.
ShowHitLastWriter(B, e, id, objs) == e \in objs /\ B.vis[e] /\ ~IsIntersection(e)

\* The test of lines 187-188, 273-274, 372-373 on one registered element.
ShowHit(B, e, id, objs) == e \in objs /\ B.vis[e] /\ ShowDelete(B, id, objs)[e] = {} /\ ~IsIntersection(e)

\* showChild(id) over the registry objs, on element fields B.
showChild(B, id, objs) ==
    [vis |-> [e \in Elems |-> IF ShowHit(B, e, id, objs) THEN PointShow.visible ELSE B.vis[e]],
     shn |-> [e \in Elems |-> IF ShowHit(B, e, id, objs) THEN PointShow.shown ELSE B.shn[e]],
     nep |-> ShowDelete(B, id, objs)]

\* The history after a call that runs neither hideChild nor showChild.
HistKeep == [pending |-> hist.pending, released |-> NoHist.released]

\* The history after hideChild(id) of a construct with descendant set dsc.
HistBlock(id, dsc) == [pending |-> [e \in Elems |-> IF e \in dsc THEN hist.pending[e] \cup {<<id, visible[e]>>} ELSE hist.pending[e]], released |-> NoHist.released]

\* The history after showChild(id).
HistUnblock(id) == [pending |-> [e \in Elems |-> {r \in hist.pending[e] : r[1] # id}], released |-> [e \in Elems |-> {r \in hist.pending[e] : r[1] = id}]]

\* The record of a call: what was called and what it did.
Call(op, k, id, sol, dirty, wrote, hid, showed) == [op |-> op, k |-> k, id |-> id, sol |-> sol, dirty |-> dirty, wrote |-> wrote, hid |-> hid, showed |-> showed]

\* The results the solver of a kind can give (intersectLineLine gives coordinates only).
SolverFor(kd) == IF kd = "LL" THEN {s \in Solutions : s.count = 1}
                 ELSE IF kd \in {"CC", "CL"} THEN Solutions
                 ELSE {NoSol}

\* ------------------------------------------------------------------------
\* Constructor

\* this.real set only when the solver reports two solutions, in every branch.
ConstructRealTwoOnly(kd, sol) == IF kd \in {"LL", "CC", "CL"} THEN sol.count = 2 ELSE TRUE

\* this.real after the constructor (lines 79, 129, 217-220, 315-318); the
\* Circle x Line branch leaves the initial true in place when the count is 1.
ConstructReal(kd, sol) == IF kd = "CC" THEN sol.count = 1
                          ELSE IF kd = "CL" THEN sol.count \in {1, 2}
                          ELSE TRUE

\* The point fields on which the constructor calls showElement (or creates shown).
ConstructShown(kd, sol) == IF kd = "LL" THEN {"p"}
                           ELSE IF kd = "CC" /\ sol.count = 1 THEN {"p1", "p2"}
                           ELSE IF kd = "CL" /\ sol.count = 1 THEN {"p1"}
                           ELSE IF kd = "CL" /\ sol.count = 2 THEN {"p1", "p2"}
                           ELSE {}

\* The coordinates the constructor leaves in point field s.
ConstructCoords(kd, sol, s) == IF s \notin ConstructShown(kd, sol) THEN Origin
                               ELSE IF s = "p2" THEN sol.c2 ELSE sol.c1

\* new JXG.Intersection(board, id, Intersect1, Intersect2, ...), with the
\* solver result sol and the constructs anc the parents depend on.
Construct(k, a1, a2, sol, anc) ==
    /\ kind[k] = "none"
    /\ LET kd == Classify(a1, a2)
           sw == Swapped(kd, a1.t)
           pts == {Pt(k, s) : s \in SlotsOf(kd)}
           sh == {Pt(k, s) : s \in ConstructShown(kd, sol)}
       IN /\ sol \in SolverFor(kd)
          /\ anc \subseteq {j \in Ids \ {k} : Live(j)}
          /\ (kd \notin {"LL", "CC", "CL"} => anc = {})
          /\ kind' = [kind EXCEPT ![k] = kd]
          /\ owned' = [owned EXCEPT ![k] = SlotsOf(kd)]
          /\ intersect1' = [intersect1 EXCEPT ![k] = IF sw THEN a2.t ELSE a1.t]
          /\ intersect2' = [intersect2 EXCEPT ![k] = IF sw THEN a1.t ELSE a2.t]
          /\ real' = [real EXCEPT ![k] = ConstructReal(kd, sol)]
          /\ needsUpdate' = [needsUpdate EXCEPT ![k] = FALSE]
          /\ visible' = [e \in Elems |-> IF e = k THEN kd # "threw" ELSE IF e \in pts THEN e \in sh ELSE visible[e]]
          /\ shown' = [e \in Elems |-> IF e \in pts THEN e \in sh ELSE shown[e]]
          /\ notExistingParents' = [e \in Elems |-> IF e = k \/ e \in pts THEN {} ELSE notExistingParents[e]]
          /\ coords' = [q \in Points |-> IF q \in pts THEN ConstructCoords(kd, sol, CHOOSE s \in Slots : q = Pt(k, s)) ELSE coords[q]]
          /\ objects' = objects \cup pts \cup (IF kd \in {"LL", "CC", "CL"} THEN {k} ELSE {})
          /\ descendants' = [j \in Ids |-> IF j = k THEN pts ELSE IF j \in anc THEN descendants[j] \cup {k} \cup pts ELSE descendants[j]]
          /\ last' = Call("construct", k, "", sol, FALSE, ConstructShown(kd, sol) # {}, FALSE, FALSE)

\* ------------------------------------------------------------------------
\* update()

\* The registry marks a construct dirty when a parent changed.
MarkDirty(k) ==
    /\ Built(k)
    /\ ~needsUpdate[k]
    /\ needsUpdate' = [needsUpdate EXCEPT ![k] = TRUE]
    /\ last' = Call("dirty", k, "", NoSol, FALSE, FALSE, FALSE, FALSE)
    /\ UNCHANGED <<kind, owned, intersect1, intersect2, real, visible, shown, notExistingParents, coords, objects, descendants>>

\* An update() that returns at once: nothing is written, nothing is called.
updateSkip(k) ==
    /\ last' = Call("update", k, "", NoSol, needsUpdate[k], FALSE, FALSE, FALSE)
    /\ UNCHANGED prog

\* JXG.Intersection.prototype.update (lines 389-391), kept by a no-op construct.
updateNoop(k) == updateSkip(k)

\* update of the Line x Line branch (lines 136-144).
updateLineLine(k, sol) ==
    IF needsUpdate[k]
    THEN /\ coords' = [coords EXCEPT ![Pt(k, "p")] = sol.c1]
         /\ needsUpdate' = [needsUpdate EXCEPT ![k] = FALSE]
         /\ last' = Call("update", k, "", sol, TRUE, TRUE, FALSE, FALSE)
         /\ UNCHANGED <<kind, owned, intersect1, intersect2, real, visible, shown, notExistingParents, objects, descendants>>
    ELSE updateSkip(k)

\* The branch of update that runs when the solver reports no solution
\* (lines 228-234, 327-333): hideChild(this.id), then the points' flags restored.
updateToUnreal(k, sol) ==
    LET p1 == Pt(k, "p1")
        p2 == Pt(k, "p2")
        H == hideChild(Board, k, k, descendants[k])
    IN IF real[k]
       THEN /\ visible' = [H.vis EXCEPT ![p1] = visible[p1], ![p2] = visible[p2]]
            /\ shown' = H.shn
            /\ notExistingParents' = H.nep
            /\ real' = [real EXCEPT ![k] = FALSE]
            /\ last' = Call("update", k, "", sol, TRUE, FALSE, TRUE, FALSE)
            /\ UNCHANGED coords
       ELSE /\ last' = Call("update", k, "", sol, TRUE, FALSE, FALSE, FALSE)
            /\ UNCHANGED <<visible, shown, notExistingParents, real, coords>>

\* The branch of update that runs when the solver reports solutions
\* (lines 235-242, 334-341): coordinates written, then showChild(this.id).
updateToReal(k, sol) ==
    LET p1 == Pt(k, "p1")
        p2 == Pt(k, "p2")
        S == showChild(Board, k, objects)
    IN /\ coords' = [coords EXCEPT ![p1] = sol.c1, ![p2] = sol.c2]
       /\ IF ~real[k]
          THEN /\ visible' = S.vis
               /\ shown' = S.shn
               /\ notExistingParents' = S.nep
               /\ real' = [real EXCEPT ![k] = TRUE]
               /\ last' = Call("update", k, "", sol, TRUE, TRUE, FALSE, TRUE)
          ELSE /\ last' = Call("update", k, "", sol, TRUE, TRUE, FALSE, FALSE)
               /\ UNCHANGED <<visible, shown, notExistingParents, real>>

\* update of the Circle x Circle branch without the needsUpdate test.
updateCircleCircleUnguarded(k, sol) ==
    /\ IF sol.count = 0 THEN updateToUnreal(k, sol) ELSE updateToReal(k, sol)
    /\ needsUpdate' = [needsUpdate EXCEPT ![k] = FALSE]
    /\ UNCHANGED <<kind, owned, intersect1, intersect2, objects, descendants>>

\* update of the Circle x Circle branch (lines 223-244).
updateCircleCircle(k, sol) ==
    IF ~needsUpdate[k]
    THEN updateSkip(k)
    ELSE /\ IF sol.count = 0 THEN updateToUnreal(k, sol) ELSE updateToReal(k, sol)
         /\ needsUpdate' = [needsUpdate EXCEPT ![k] = FALSE]
         /\ UNCHANGED <<kind, owned, intersect1, intersect2, objects, descendants>>

\* update of the Circle x Line branch (lines 321-343).
updateCircleLine(k, sol) ==
    IF ~needsUpdate[k]
    THEN updateSkip(k)
    ELSE /\ IF sol.count = 0 THEN updateToUnreal(k, sol)
            ELSE IF sol.count = 2 THEN updateToReal(k, sol)
            ELSE /\ last' = Call("update", k, "", sol, TRUE, FALSE, FALSE, FALSE)
                 /\ UNCHANGED <<visible, shown, notExistingParents, real, coords>>
         /\ needsUpdate' = [needsUpdate EXCEPT ![k] = FALSE]
         /\ UNCHANGED <<kind, owned, intersect1, intersect2, objects, descendants>>

\* construct.update(), the solver giving sol when it is invoked.
Update(k, sol) ==
    /\ Built(k)
    /\ sol \in (IF needsUpdate[k] THEN SolverFor(kind[k]) ELSE {NoSol})
    /\ IF kind[k] = "LL" THEN updateLineLine(k, sol)
       ELSE IF kind[k] = "CC" THEN updateCircleCircle(k, sol)
       ELSE IF kind[k] = "CL" THEN updateCircleLine(k, sol)
       ELSE updateNoop(k)

\* ------------------------------------------------------------------------
\* update() of the two circle branches, one statement at a time

\* The statements with showChild(this.id) ahead of the two coordinate writes.
updateProgramShowFirst(kd, sol, isReal) ==
    IF sol.count = 0
    THEN (IF isReal THEN <<"hideChild", "restore1", "restore2", "unreal">> ELSE <<>>) \o <<"clear">>
    ELSE IF kd = "CC" \/ sol.count = 2
    THEN (IF ~isReal THEN <<"showChild", "coords1", "coords2", "real">> ELSE <<"coords1", "coords2">>) \o <<"clear">>
    ELSE <<"clear">>

\* The statements update() executes after the solver call, in order
\* (lines 228-243 and 327-342): hideChild 230/329, restore1 231/330,
\* restore2 232/331, unreal 233/332, coords1 236/335, coords2 237/336,
\* showChild 239/338, real 240/339, clear 243/342.
updateProgram(kd, sol, isReal) ==
    IF sol.count = 0
    THEN (IF isReal THEN <<"hideChild", "restore1", "restore2", "unreal">> ELSE <<>>) \o <<"clear">>
    ELSE IF kd = "CC" \/ sol.count = 2
    THEN <<"coords1", "coords2">> \o (IF ~isReal THEN <<"showChild", "real">> ELSE <<>>) \o <<"clear">>
    ELSE <<"clear">>

\* Entry of update() (lines 224-227, 322-325): the needsUpdate test, the
\* solver call and the two saved flags. The Line x Line update, the
\* prototype's and the early return are taken whole.
updateBegin(k, sol) ==
    /\ run.todo = <<>>
    /\ Built(k)
    /\ sol \in (IF needsUpdate[k] THEN SolverFor(kind[k]) ELSE {NoSol})
    /\ IF kind[k] \in {"CC", "CL"} /\ needsUpdate[k]
       THEN /\ run' = [k |-> k, todo |-> updateProgram(kind[k], sol, real[k]), sol |-> sol, show1 |-> visible[Pt(k, "p1")], show2 |-> visible[Pt(k, "p2")], wasReal |-> real[k], shows |-> 0]
            /\ last' = Call("update", k, "", sol, TRUE, FALSE, FALSE, FALSE)
            /\ UNCHANGED prog
       ELSE /\ Update(k, sol)
            /\ UNCHANGED run

\* The next statement of the update() in progress.
updateStatement ==
    /\ run.todo # <<>>
    /\ LET s == Head(run.todo)
           k == run.k
           p1 == Pt(run.k, "p1")
           p2 == Pt(run.k, "p2")
           H == hideChild(Board, run.k, run.k, descendants[run.k])
           S == showChild(Board, run.k, objects)
       IN /\ visible' = IF s = "hideChild" THEN H.vis
                         ELSE IF s = "showChild" THEN S.vis
                         ELSE IF s = "restore1" THEN [visible EXCEPT ![p1] = run.show1]
                         ELSE IF s = "restore2" THEN [visible EXCEPT ![p2] = run.show2]
                         ELSE visible
          /\ shown' = IF s = "hideChild" THEN H.shn ELSE IF s = "showChild" THEN S.shn ELSE shown
          /\ notExistingParents' = IF s = "hideChild" THEN H.nep ELSE IF s = "showChild" THEN S.nep ELSE notExistingParents
          /\ real' = IF s = "unreal" THEN [real EXCEPT ![k] = FALSE]
                      ELSE IF s = "real" THEN [real EXCEPT ![k] = TRUE]
                      ELSE real
          /\ coords' = IF s = "coords1" THEN [coords EXCEPT ![p1] = run.sol.c1]
                        ELSE IF s = "coords2" THEN [coords EXCEPT ![p2] = run.sol.c2]
                        ELSE coords
          /\ needsUpdate' = IF s = "clear" THEN [needsUpdate EXCEPT ![k] = FALSE] ELSE needsUpdate
          /\ last' = [last EXCEPT !.wrote = @ \/ s \in {"coords1", "coords2"}, !.hid = @ \/ s = "hideChild", !.showed = @ \/ s = "showChild"]
          /\ run' = [run EXCEPT !.todo = Tail(@), !.shows = IF s = "showChild" THEN @ + 1 ELSE @]
    /\ UNCHANGED <<kind, owned, intersect1, intersect2, objects, descendants>>

\* ------------------------------------------------------------------------
\* hideElement / showElement, hideChild / showChild, remove

\* hideElement of a construct (lines 149-152, 246-250, 345-349).
hideElement(k) ==
    /\ Live(k)
    /\ visible' = [e \in Elems |-> IF e = k THEN FALSE ELSE IF e \in PointsOf(k) THEN PointHide.visible ELSE visible[e]]
    /\ shown' = [e \in Elems |-> IF e \in PointsOf(k) THEN PointHide.shown ELSE shown[e]]
    /\ last' = Call("hide", k, "", NoSol, FALSE, FALSE, FALSE, FALSE)
    /\ UNCHANGED <<kind, owned, intersect1, intersect2, real, needsUpdate, notExistingParents, coords, objects, descendants>>

\* showElement of a construct (lines 157-160, 252-256, 351-355).
showElement(k) ==
    /\ Live(k)
    /\ visible' = [e \in Elems |-> IF e = k THEN TRUE ELSE IF e \in PointsOf(k) THEN PointShow.visible ELSE visible[e]]
    /\ shown' = [e \in Elems |-> IF e \in PointsOf(k) THEN PointShow.shown ELSE shown[e]]
    /\ last' = Call("show", k, "", NoSol, FALSE, FALSE, FALSE, FALSE)
    /\ UNCHANGED <<kind, owned, intersect1, intersect2, real, needsUpdate, notExistingParents, coords, objects, descendants>>

\* construct.hideChild(id) called from outside; the prototype's is empty (409-410).
Block(k, id) ==
    /\ Built(k)
    /\ LET H == IF Live(k) THEN hideChild(Board, k, id, descendants[k]) ELSE Board
       IN /\ visible' = H.vis
          /\ shown' = H.shn
          /\ notExistingParents' = H.nep
    /\ last' = Call("block", k, id, NoSol, FALSE, FALSE, Live(k), FALSE)
    /\ UNCHANGED <<kind, owned, intersect1, intersect2, real, needsUpdate, coords, objects, descendants>>

\* construct.showChild(id) called from outside; the prototype's is empty (418-419).
Unblock(k, id) ==
    /\ Built(k)
    /\ LET S == IF Live(k) THEN showChild(Board, id, objects) ELSE Board
       IN /\ visible' = S.vis
          /\ shown' = S.shn
          /\ notExistingParents' = S.nep
    /\ last' = Call("unblock", k, id, NoSol, FALSE, FALSE, FALSE, Live(k))
    /\ UNCHANGED <<kind, owned, intersect1, intersect2, real, needsUpdate, coords, objects, descendants>>

\* board.removeObject(element): the element leaves the registry.
removeObject(objs, e) == objs \ {e}

\* remove() without the third test: this.p2 stays in the registry.
removeObjectsKeepsP2(k, objs) ==
    LET o1 == IF "p" \in owned[k] THEN removeObject(objs, Pt(k, "p")) ELSE objs
    IN IF "p1" \in owned[k] THEN removeObject(o1, Pt(k, "p1")) ELSE o1

\* The registry after remove() of construct k (lines 424-433).
removeObjects(k, objs) ==
    LET o1 == IF "p" \in owned[k] THEN removeObject(objs, Pt(k, "p")) ELSE objs
        o2 == IF "p1" \in owned[k] THEN removeObject(o1, Pt(k, "p1")) ELSE o1
    IN IF "p2" \in owned[k] THEN removeObject(o2, Pt(k, "p2")) ELSE o2

\* JXG.Intersection.prototype.remove.
remove(k) ==
    /\ Built(k)
    /\ objects' = removeObjects(k, objects)
    /\ last' = Call("remove", k, "", NoSol, FALSE, FALSE, FALSE, FALSE)
    /\ UNCHANGED <<kind, owned, intersect1, intersect2, real, needsUpdate, visible, shown, notExistingParents, coords, descendants>>

\* ------------------------------------------------------------------------
\* Other elements of the board

\* A new element d, created with visibility v, that depends on points of the
\* constructs ks: the registry adds it to their descendants and to those of
\* the constructs they descend from.
CreateDependent(d, v, ks) ==
    /\ d \notin objects
    /\ ks # {}
    /\ ks \subseteq {j \in Ids : Live(j)}
    /\ visible' = [visible EXCEPT ![d] = v]
    /\ shown' = [shown EXCEPT ![d] = v]
    /\ objects' = objects \cup {d}
    /\ descendants' = [j \in Ids |-> IF j \in ks \/ descendants[j] \cap ks # {} THEN descendants[j] \cup {d} ELSE descendants[j]]
    /\ last' = Call("create", d, "", NoSol, FALSE, FALSE, FALSE, FALSE)
    /\ UNCHANGED <<kind, owned, intersect1, intersect2, real, needsUpdate, notExistingParents, coords>>

\* Element.hideElement() of a dependent, called by the user.
hideDependent(d) ==
    /\ d \in objects
    /\ visible' = [visible EXCEPT ![d] = PointHide.visible]
    /\ shown' = [shown EXCEPT ![d] = PointHide.shown]
    /\ last' = Call("hideDep", d, "", NoSol, FALSE, FALSE, FALSE, FALSE)
    /\ UNCHANGED <<kind, owned, intersect1, intersect2, real, needsUpdate, notExistingParents, coords, objects, descendants>>

\* Element.showElement() of a dependent, called by the user.
showDependent(d) ==
    /\ d \in objects
    /\ visible' = [visible EXCEPT ![d] = PointShow.visible]
    /\ shown' = [shown EXCEPT ![d] = PointShow.shown]
    /\ last' = Call("showDep", d, "", NoSol, FALSE, FALSE, FALSE, FALSE)
    /\ UNCHANGED <<kind, owned, intersect1, intersect2, real, needsUpdate, notExistingParents, coords, objects, descendants>>

\* ------------------------------------------------------------------------
\* Specifications

\* Parents passed as live objects: each branch of the constructor, and every
\* pair of line-like parents.
StdPairs == {<<Obj("line"), Obj("arrow")>>, <<Obj("circle"), Obj("arc")>>, <<Obj("line"), Obj("circle")>>, <<Obj("empty"), Obj("undef")>>}
OnePairs == StdPairs \cup {<<Obj("line"), Obj("line")>>, <<Obj("arrow"), Obj("arrow")>>, <<Obj("arrow"), Obj("line")>>}

\* Every way to pass a parent.
ParentArgs == {a \in Args : a.byId => ~Absent(a.t)}

\* Solver results with the first coordinate of the range only.
Solutions1 == {s \in Solutions : s.c1 \in {Undef, 1}}

ConstructOne == \E pr \in OnePairs, sol \in Solutions : Construct("K1", pr[1], pr[2], sol, {}) /\ UNCHANGED hist /\ UNCHANGED run
ConstructAny == \E a1 \in ParentArgs, a2 \in ParentArgs, sol \in Solutions : Construct("K1", a1, a2, sol, {}) /\ UNCHANGED hist /\ UNCHANGED run
ConstructStd1 == \E k \in Ids, pr \in StdPairs, sol \in Solutions1, anc \in SUBSET Ids : Construct(k, pr[1], pr[2], sol, anc) /\ hist' = HistKeep /\ UNCHANGED run
DoMarkDirty == \E k \in Ids : MarkDirty(k) /\ UNCHANGED hist /\ UNCHANGED run
DoUpdate == \E k \in Ids, sol \in Solutions : Update(k, sol) /\ UNCHANGED hist /\ UNCHANGED run
DoUpdate1 == \E k \in Ids, sol \in Solutions1 : Update(k, sol) /\ UNCHANGED hist /\ UNCHANGED run
DoHide == \E k \in Ids : hideElement(k) /\ UNCHANGED hist /\ UNCHANGED run
DoShow == \E k \in Ids : showElement(k) /\ UNCHANGED hist /\ UNCHANGED run
DoBlock == \E k \in Ids, id \in Ids : Block(k, id) /\ UNCHANGED hist /\ UNCHANGED run
DoUnblock == \E k \in Ids, id \in Ids : Unblock(k, id) /\ UNCHANGED hist /\ UNCHANGED run
DoBlockOwn == \E k \in Ids : Block(k, k) /\ hist' = (IF Live(k) THEN HistBlock(k, descendants[k]) ELSE HistKeep) /\ UNCHANGED run
DoUnblockOwn == \E k \in Ids : Unblock(k, k) /\ hist' = (IF Live(k) THEN HistUnblock(k) ELSE HistKeep) /\ UNCHANGED run
DoRemove == \E k \in Ids : remove(k) /\ hist' = HistKeep /\ UNCHANGED run
DoCreate == \E d \in Deps, v \in BOOLEAN, ks \in SUBSET Ids : CreateDependent(d, v, ks) /\ hist' = HistKeep /\ UNCHANGED run
DoHideDep == \E d \in Deps : hideDependent(d) /\ hist' = HistKeep /\ UNCHANGED run
DoShowDep == \E d \in Deps : showDependent(d) /\ hist' = HistKeep /\ UNCHANGED run

\* One construct and one dependent, every operation.
Next == ConstructOne \/ DoMarkDirty \/ DoUpdate \/ DoHide \/ DoShow \/ DoBlock \/ DoUnblock \/ DoRemove \/ DoCreate \/ DoHideDep \/ DoShowDep
Spec == Init /\ [][Next]_vars

\* The propagation protocol alone: constructs, dependents, user hiding,
\* and each construct blocking and unblocking with its own id.
NextProtocol == ConstructStd1 \/ DoCreate \/ DoHideDep \/ DoBlockOwn \/ DoUnblockOwn
SpecProtocol == Init /\ [][NextProtocol]_vars

\* Construction and update passes only.
NextUpdate == ConstructStd1 \/ DoCreate \/ DoMarkDirty \/ DoUpdate1
SpecUpdate == Init /\ [][NextUpdate]_vars

\* One construct, every way of passing its parents.
NextConstruct == ConstructAny \/ DoMarkDirty \/ DoUpdate \/ DoRemove
SpecConstruct == Init /\ [][NextConstruct]_vars

\* Constructs, dependents, blocking and removal.
NextRemove == ConstructStd1 \/ DoCreate \/ DoBlockOwn \/ DoUnblockOwn \/ DoRemove
SpecRemove == Init /\ [][NextRemove]_vars

\* One construct and one dependent, update() taken statement by statement;
\* a handler runs to completion before the next call starts.
StepConstruct == run.todo = <<>> /\ ConstructOne
StepCreate == run.todo = <<>> /\ DoCreate
StepMarkDirty == run.todo = <<>> /\ DoMarkDirty
StepUpdateBegin == \E k \in Ids, sol \in Solutions : updateBegin(k, sol) /\ UNCHANGED hist
StepUpdateStatement == updateStatement /\ UNCHANGED hist
NextSteps == StepConstruct \/ StepCreate \/ StepMarkDirty \/ StepUpdateBegin \/ StepUpdateStatement
SpecSteps == Init /\ [][NextSteps]_vars

\* Two constructs and a dependent: hideChild and showChild called with any
\* id on any construct.
NextBlocking == ConstructStd1 \/ DoCreate \/ DoBlock \/ DoUnblock
SpecBlocking == Init /\ [][NextBlocking]_vars

\* ------------------------------------------------------------------------
\* Properties

\* Elements with a rendered state: points and dependents.
Rendered == Points \cup Deps

\* The ids whose hideChild reached e and was not yet followed by showChild.
PendingIds(e) == {r[1] : r \in hist.pending[e]}

\* The ids the last call, a showChild, released on e.
ReleasedIds(e) == {r[1] : r \in hist.released[e]}

\* C1: Blocking composition. An element reached by hideChild(A) and
\* hideChild(B) is not shown while one of the two ids was not yet released by
\* showChild (so showChild(A) alone leaves it hidden); once showChild ran
\* for every id that reached it, it is shown iff its visible flag is true.
C1_BlockingComposition ==
    \A e \in Rendered :
        /\ (PendingIds(e) # {} => ~shown[e])
        /\ (ReleasedIds(e) # {} /\ PendingIds(e) = {} => (shown[e] <=> visible[e]))

\* C1 witness: D1 was blocked by K1 and K2, showChild(K1) alone has run,
\* and D1, whose flag is true, is still hidden.
C1_Witness ==
    /\ last.op = "unblock"
    /\ PendingIds("D1") = {"K2"}
    /\ ReleasedIds("D1") = {"K1"}
    /\ {"D1"} \subseteq descendants["K1"] \cap descendants["K2"]
    /\ visible["D1"]
    /\ ~shown["D1"]

\* C2: Restoration never overrides intent. An element whose visible flag was
\* false when hideChild(id) reached it is, right after showChild(id), still
\* not shown and its flag still false, whatever hideChild / showChild calls
\* with other ids ran in between.
C2_RestoreKeepsIntent ==
    \A e \in Elems :
        (\E r \in hist.released[e] : r[2] = FALSE) => (~shown[e] /\ ~visible[e])

\* C2 witness: D1 was hidden by the user, then blocked by K1 and by K2, and
\* showChild(K1) has just run.
C2_Witness ==
    /\ last.op = "unblock"
    /\ last.id = "K1"
    /\ <<"K1", FALSE>> \in hist.released["D1"]
    /\ <<"K2", FALSE>> \in hist.pending["D1"]
    /\ "D1" \in objects

\* C3: a construct that is not real has none of its owned points shown, in
\* every state reached by construction, update, hideElement, showElement,
\* hideChild and showChild.
C3_UnrealPointsHidden ==
    \A k \in Ids : (Live(k) /\ ~real[k]) => (\A q \in PointsOf(k) : ~shown[q])

\* C4: Transitive hiding. While a construct is not real, none of its
\* descendants other than intersection constructs is shown, in every state
\* reached by construction, creation of dependents and update passes.
C4_TransitiveHiding ==
    \A k \in Ids : (Live(k) /\ ~real[k]) => (\A e \in descendants[k] \ Ids : ~shown[e])

\* C5: for a Circle x Circle construct, right after construction and right
\* after an update() that found needsUpdate set: solver count 0 leaves the
\* construct not real with both points hidden; count 1 or 2 leaves it real
\* with both points at the coordinates the solver returned.
C5_CircleCircleSolver ==
    \A k \in Ids :
        (kind[k] = "CC" /\ last.k = k /\ (last.op = "construct" \/ (last.op = "update" /\ last.dirty)))
        => IF last.sol.count = 0
           THEN ~real[k] /\ (\A q \in PointsOf(k) : ~shown[q])
           ELSE real[k] /\ coords[Pt(k, "p1")] = last.sol.c1 /\ coords[Pt(k, "p2")] = last.sol.c2

\* C6: Idempotence of update. An update() called while needsUpdate is not
\* set changes no field of any construct or element, writes no coordinate
\* and calls neither hideChild nor showChild; and an update() of a construct
\* with parents leaves needsUpdate unset, so the next update() is such a call.
C6_UpdateIdempotent ==
    /\ [][\A k \in Ids : (last'.op = "update" /\ last'.k = k /\ ~needsUpdate[k])
                          => (UNCHANGED prog /\ ~last'.wrote /\ ~last'.hid /\ ~last'.showed)]_vars
    /\ [](\A k \in Ids : (last.op = "update" /\ last.k = k /\ Live(k)) => ~needsUpdate[k])

\* C6 witness: update() was called on a Circle x Circle construct that is not
\* real and not dirty, with a dependent in the registry.
C6_Witness ==
    /\ last.op = "update"
    /\ ~last.dirty
    /\ kind[last.k] = "CC"
    /\ ~real[last.k]
    /\ ~needsUpdate[last.k]
    /\ "D1" \in descendants[last.k]

\* C7: a construct whose parents are both line-like is Line x Line: the
\* constructor creates exactly one owned point, registered on the board; the
\* construct is real in every later state; no construct's set of owned
\* points changes after construction.
C7_LineLineAlwaysReal ==
    /\ [](\A k \in Ids : (kind[k] # "none" /\ LineLikeT(intersect1[k]) /\ LineLikeT(intersect2[k]))
                          => (kind[k] = "LL" /\ Cardinality(PointsOf(k)) = 1 /\ real[k]))
    /\ [][\A k \in Ids : /\ (kind[k] # "none" => owned'[k] = owned[k])
                          /\ ((kind[k] = "none" /\ kind'[k] = "LL") => {Pt(k, s) : s \in owned'[k]} \subseteq objects')]_vars

\* C7 witness: a Line x Line construct over an arrow and a line whose point
\* was blocked and which has just run a dirty update().
C7_Witness ==
    /\ kind["K1"] = "LL"
    /\ intersect1["K1"] = "arrow"
    /\ intersect2["K1"] = "line"
    /\ last.op = "update"
    /\ last.dirty
    /\ notExistingParents[Pt("K1", "p")] # {}
    /\ ~visible["K1"]
    /\ real["K1"]

\* C8: AbsentParent. When either resolved parent is '' or undefined, the
\* constructor completes, the construct owns no points, and its update()
\* does nothing.
C8_AbsentParentNoop ==
    \A k \in Ids :
        (kind[k] # "none" /\ (Absent(intersect1[k]) \/ Absent(intersect2[k])))
        => /\ kind[k] = "noop"
           /\ owned[k] = {}
           /\ ((last.op = "update" /\ last.k = k) => (~last.wrote /\ ~last.hid /\ ~last.showed))

\* C9: InvalidPairing. When both parents resolve and their types are not one
\* of the three supported pairs, the constructor runs none of its three
\* branches: no points, no solver call, no registration.
C9_InvalidPairingRejected ==
    \A k \in Ids :
        (kind[k] # "none" /\ ~Absent(intersect1[k]) /\ ~Absent(intersect2[k]) /\ ~SupportedPair(intersect1[k], intersect2[k]))
        => (kind[k] \notin {"LL", "CC", "CL"} /\ owned[k] = {} /\ k \notin objects)

\* The number of points a construct of kind kd owns.
OwnedCount(kd) == IF kd = "LL" THEN 1 ELSE IF kd \in {"CC", "CL"} THEN 2 ELSE 0

\* C10: remove() takes exactly the construct's owned points (one, two or
\* none, by kind) out of the registry and changes nothing else: no field of
\* any construct, no flag, rendered state, coordinates or notExistingParents
\* of any element, no descendant set.
C10_RemoveFrame ==
    [][\A k \in Ids : (last'.op = "remove" /\ last'.k = k)
                      => /\ objects' = objects \ PointsOf(k)
                         /\ Cardinality(PointsOf(k)) = OwnedCount(kind[k])
                         /\ UNCHANGED <<kind, owned, intersect1, intersect2, real, needsUpdate, visible, shown, notExistingParents, coords, descendants>>]_vars

\* C10 witness: K1, Circle x Circle and not real, with blocked points, has
\* just been removed while its sibling K2 keeps its points in the registry.
C10_Witness ==
    /\ last.op = "remove"
    /\ last.k = "K1"
    /\ kind["K1"] = "CC"
    /\ ~real["K1"]
    /\ notExistingParents[Pt("K1", "p1")] # {}
    /\ PointsOf("K1") \cap objects = {}
    /\ Live("K2")
    /\ PointsOf("K2") # {}
    /\ PointsOf("K2") \subseteq objects

\* C11: for a Circle x Circle and a Circle x Line construct, after every
\* update() that found needsUpdate set: solver count 0 leaves the construct
\* not real, and solver count 1 or 2 leaves it real (so a Circle x Line
\* construct that was not real and whose update sees count 1 becomes real).
C11_CircleUpdateReality ==
    \A k \in Ids :
        (kind[k] \in {"CC", "CL"} /\ last.op = "update" /\ last.k = k /\ last.dirty)
        => (real[k] <=> last.sol.count >= 1)

\* C12: right after the construction of a Circle x Line construct: when the
\* solver reported count 0 or count 1 the construct is not real and both
\* owned points are hidden; when it reported count 2 both points hold the
\* solver's coordinates, both are shown and the construct is real.
C12_CircleLineConstruction ==
    \A k \in Ids :
        (kind[k] = "CL" /\ last.op = "construct" /\ last.k = k)
        => IF last.sol.count = 2
           THEN /\ real[k]
                /\ coords[Pt(k, "p1")] = last.sol.c1
                /\ coords[Pt(k, "p2")] = last.sol.c2
                /\ \A q \in PointsOf(k) : shown[q]
           ELSE /\ ~real[k]
                /\ \A q \in PointsOf(k) : ~shown[q]

\* C13: hideChild(id), showChild(id) and an update() that runs one of them
\* (a change of this.real) leave the visible flag of every element, the
\* construct's owned points included, as it was before the call; only the
\* rendered state and the notExistingParents sets change.
C13_IntentFrame ==
    [][/\ (last'.op \in {"block", "unblock"})
          => UNCHANGED <<kind, owned, intersect1, intersect2, real, needsUpdate, visible, coords, objects, descendants>>
       /\ (last'.op = "update" /\ (last'.hid \/ last'.showed))
          => visible' = visible]_vars

\* C13 witness: the update() of K1 has just run hideChild(K1), which hid the
\* dependent D1 and the owned point p1; both keep their flag true.
C13_Witness ==
    /\ last.op = "update"
    /\ last.k = "K1"
    /\ last.hid
    /\ ~real["K1"]
    /\ "D1" \in descendants["K1"]
    /\ visible["D1"] /\ ~shown["D1"]
    /\ visible[Pt("K1", "p1")] /\ ~shown[Pt("K1", "p1")]
    /\ "K1" \in notExistingParents["D1"]

\* C14: in an update() that takes a Circle x Circle or Circle x Line
\* construct from not real to real, the solver's coordinates are in both
\* owned points when showChild(this.id) is called, so no element becomes
\* shown while a point still holds its old coordinates; showChild is called
\* exactly once in such an update, and not at all in an update that found
\* the construct real.
C14_WriteBeforeShow ==
    /\ []((run.todo # <<>> /\ Head(run.todo) = "showChild")
          => (coords[Pt(run.k, "p1")] = run.sol.c1 /\ coords[Pt(run.k, "p2")] = run.sol.c2))
    /\ [][(run.todo # <<>> /\ (\E e \in Elems : shown'[e] /\ ~shown[e]))
          => (coords[Pt(run.k, "p1")] = run.sol.c1 /\ coords[Pt(run.k, "p2")] = run.sol.c2)]_vars
    /\ []((run.todo = <<>> /\ run.k # "")
          => /\ run.shows = (IF ~run.wasReal /\ real[run.k] THEN 1 ELSE 0)
             /\ (run.wasReal => run.shows = 0))

\* C14 witness: an update() of K1 that found it not real has ended; it wrote
\* coordinates other than the placeholder, called showChild once, and the
\* dependent D1 is shown.
C14_Witness ==
    /\ run.todo = <<>>
    /\ run.k = "K1"
    /\ ~run.wasReal
    /\ real["K1"]
    /\ run.shows = 1
    /\ last.showed
    /\ coords[Pt("K1", "p1")] = run.sol.c1
    /\ coords[Pt("K1", "p1")] # Origin
    /\ "D1" \in descendants["K1"]
    /\ shown["D1"]

\* C15: showChild(id) of a construct of one of the three kinds works on the
\* whole registry: after it, no registered element (descendant of the
\* caller or not, constructs included) has id in its notExistingParents;
\* every other key of every notExistingParents is as before; and an element
\* becomes shown in the call only if it is registered, its
\* notExistingParents is empty after the removal, its visible flag is true
\* and it is not an intersection construct.
C15_UnblockWholeRegistry ==
    [][(last'.op = "unblock" /\ Live(last'.k))
       => /\ \A e \in objects : last'.id \notin notExistingParents'[e]
          /\ \A e \in Elems : notExistingParents'[e] \ {last'.id} = notExistingParents[e] \ {last'.id}
          /\ \A e \in Elems : (shown'[e] /\ ~shown[e])
                               => (e \in objects /\ notExistingParents'[e] = {} /\ visible[e] /\ ~IsIntersection(e))]_vars

\* C15 witness: K2.showChild("K1") has just run; it released and showed D1,
\* which is not a descendant of K2, released the construct K1 itself, and
\* left the key K2 on a point of K1.
C15_Witness ==
    /\ last.op = "unblock"
    /\ last.k = "K2"
    /\ last.id = "K1"
    /\ Live("K2")
    /\ "D1" \in objects
    /\ "D1" \notin descendants["K2"]
    /\ "D1" \in descendants["K1"]
    /\ shown["D1"]
    /\ notExistingParents["D1"] = {}
    /\ "K2" \in notExistingParents[Pt("K1", "p1")]
    /\ ~shown[Pt("K1", "p1")]

\* C16: the kind of a construct is the one its resolved parents give: it is
\* the kind the constructor gives the same two parents passed as live
\* objects, whether they were passed as objects or as string ids; and two
\* circle-like parents (circle or arc) always give Circle x Circle.
C16_KindFromResolvedTypes ==
    \A k \in Ids :
        kind[k] # "none"
        => /\ kind[k] = Classify(Obj(intersect1[k]), Obj(intersect2[k]))
           /\ ((CircleLikeT(intersect1[k]) /\ CircleLikeT(intersect2[k])) => kind[k] = "CC")

\* C17: a construct made from one circle-like and one line-like parent, in
\* either order and passed in either way, is Circle x Line with intersect1
\* the circle-like and intersect2 the line-like parent; no call changes the
\* parents of a construct after construction, so every update() calls the
\* solver with (circle, line).
C17_CircleLineOrder ==
    /\ [](\A k \in Ids :
            (kind[k] # "none" /\ {CircleLikeT(intersect1[k]), CircleLikeT(intersect2[k])} = {TRUE, FALSE}
                              /\ {LineLikeT(intersect1[k]), LineLikeT(intersect2[k])} = {TRUE, FALSE})
            => (kind[k] = "CL" /\ CircleLikeT(intersect1[k]) /\ LineLikeT(intersect2[k])))
    /\ [][\A k \in Ids : kind[k] # "none" => (intersect1'[k] = intersect1[k] /\ intersect2'[k] = intersect2[k])]_vars

\* C17 witness: a Circle x Line construct over an arc and an arrow has just
\* run an update() that called the solver and wrote both points.
C17_Witness ==
    /\ kind["K1"] = "CL"
    /\ intersect1["K1"] = "arc"
    /\ intersect2["K1"] = "arrow"
    /\ last.op = "update"
    /\ last.k = "K1"
    /\ last.dirty
    /\ last.wrote
    /\ last.sol.count = 2

\* C18: a Circle x Circle or Circle x Line construct that was created not
\* real (both points created with the visible flag false, at the placeholder
\* coordinates) and whose update() then finds two solutions ends that
\* update() real, with both owned points shown.
C18_CreatedUnrealThenShown ==
    \A k \in Ids :
        (/\ kind[k] \in {"CC", "CL"}
         /\ last.op = "update" /\ last.k = k /\ last.dirty /\ last.showed
         /\ last.sol.count = 2
         /\ \A q \in PointsOf(k) : ~visible[q])
        => (real[k] /\ \A q \in PointsOf(k) : shown[q])

\* C19: in every state reached by constructions, creation of dependents and
\* update passes (update() being the only caller of hideChild and showChild,
\* each with this.id, the id the board assigned), the id of a construct is
\* a key of the notExistingParents of a registered element only while that
\* construct is not real: when a construct is real, no registered element
\* has its id as a key.
C19_BlockedOnlyWhileUnreal ==
    \A k \in Ids :
        (Built(k) /\ real[k]) => (\A e \in objects : k \notin notExistingParents[e])

\* C19 witness: K1 and K2 had both become not real and blocked D1; the
\* update() of K1 has just made it real again and taken its key off every
\* element, while K2 is still not real and still blocks D1.
C19_Witness ==
    /\ last.op = "update"
    /\ last.k = "K1"
    /\ last.showed
    /\ real["K1"]
    /\ ~real["K2"]
    /\ "D1" \in descendants["K1"] \cap descendants["K2"]
    /\ "K2" \in descendants["K1"]
    /\ notExistingParents["D1"] = {"K2"}
    /\ notExistingParents["K2"] = {"K2"}
    /\ notExistingParents["K1"] = {}

\* C20: hideChild and showChild with different ids do not disturb each
\* other: from every reachable state, for every construct k of the three
\* kinds and ids a # b, k.hideChild(a) followed by showChild(b) leaves every
\* element with the same notExistingParents, visible flag and rendered state
\* as showChild(b) followed by k.hideChild(a).
C20_BlockUnblockCommute ==
    \A k \in Ids, a \in Ids, b \in Ids :
        (Live(k) /\ a # b)
        => showChild(hideChild(Board, k, a, descendants[k]), b, objects)
           = hideChild(showChild(Board, b, objects), k, a, descendants[k])

\* C20 witness: D1, a descendant of K1 whose flag is true, is hidden by the
\* key K2 alone: showChild("K2") first shows it and K1.hideChild("K1") then
\* hides it again; in the other order it is never shown. Both end with D1
\* hidden under the key K1.
C20_Witness ==
    /\ last.op = "block"
    /\ last.id = "K2"
    /\ Live("K1")
    /\ "D1" \in descendants["K1"]
    /\ "D1" \in objects
    /\ visible["D1"]
    /\ ~shown["D1"]
    /\ notExistingParents["D1"] = {"K2"}
    /\ showChild(Board, "K2", objects).shn["D1"]
    /\ ~showChild(hideChild(Board, "K1", "K1", descendants["K1"]), "K2", objects).shn["D1"]
    /\ hideChild(showChild(Board, "K2", objects), "K1", "K1", descendants["K1"]).nep["D1"] = {"K1"}

====
